---------------------------- MODULE Spec2Model ----------------------------
(***************************************************************************)
(* Model of the DCR framework: the fuzzy inference engine                  *)
(* (src/src/core/fuzzy_system.py) and the contamination analyzer           *)
(* (src/src/core/dcr_calculator.py).                                       *)
(*                                                                         *)
(* Numbers.  Python floats are modelled by exact fixed-point integers:     *)
(*   - a contamination score and a point of the universe x are counted in  *)
(*     hundredths (0.30 is 30), so x = linspace(0, 1, 101) is 0..100;      *)
(*   - a membership degree is counted in 1/Unit (1.0 is Unit);             *)
(*   - a DCR factor is counted in ten-thousandths (round(_, 4));           *)
(*   - an accuracy is a whole percentage, an adjusted accuracy is counted  *)
(*     in ten-thousandths of a percent (accuracy * (10000 - dcr)).         *)
(* Every division below is exact for these units unless it is a rounding.  *)
(***************************************************************************)
EXTENDS Integers, Sequences, FiniteSets

VARIABLES
    settings,        \* config/settings.py DCR_SETTINGS, as deployed
    pc,              \* which API call is in progress / has returned
    s,               \* calculate_dcr: the arguments <<s1, s2, s3, s4>>
    inputs,          \* calculate_dcr: the sanitized inputs
    fuzzified,       \* calculate_dcr: L1..L4 -> term -> degree
    aggregated,      \* calculate_dcr: what _apply_rules returned
    dcr,             \* calculate_dcr: the returned value
    path,            \* calculate_dcr: the return statement that was taken
    data,            \* process_experiment_data: the rows read so far
    results,         \* process_experiment_data: results
    ground_truths,   \* process_experiment_data: model -> baseline adj_acc
    gt_list,         \* process_experiment_data: gt_list
    pred_list,       \* process_experiment_data: pred_list
    dcr_values,      \* process_experiment_data: dcr_values
    raw_acc_values,  \* process_experiment_data: raw_acc_values
    arg_xs,          \* first list argument of a statistics call
    arg_ys,          \* second list argument of a statistics call
    average_error,   \* returned average error, a fraction [num, den]
    correlation      \* returned (correlation, p_value)

engine_vars == <<s, inputs, fuzzified, aggregated, dcr, path>>
batch_vars == <<data, results, ground_truths, gt_list, pred_list,
                dcr_values, raw_acc_values>>
stat_vars == <<arg_xs, arg_ys, average_error, correlation>>
vars == <<settings, pc, engine_vars, batch_vars, stat_vars>>

-----------------------------------------------------------------------------
(* Units *)

\* one whole membership degree; divisible by every slope width (10, 20, 30),
\* by the 4 of np.mean over four degrees and by the 4000 of mean * 0.1
Unit == 48 * 1000
\* self.x = np.linspace(0, 1, 101): the number of sample points
NumSamples == 101
\* a score or a point of x is counted in hundredths: 1.0 is the last sample
One == NumSamples - 1
\* a DCR factor: ten-thousandths
DcrOne == One * One

Max(a, b) == IF a >= b THEN a ELSE b
Min(a, b) == IF a <= b THEN a ELSE b
Abs(a) == IF a < 0 THEN -a ELSE a

\* sum(f[lo .. hi]) and max(f[lo .. hi]), by halves
RECURSIVE SumOver(_, _, _)
SumOver(f, lo, hi) ==
    IF lo > hi THEN 0
    ELSE IF lo = hi THEN f[lo]
    ELSE LET mid == (lo + hi) \div 2
         IN  SumOver(f, lo, mid) + SumOver(f, mid + 1, hi)

RECURSIVE MaxOver(_, _, _)
MaxOver(f, lo, hi) ==
    IF lo = hi THEN f[lo]
    ELSE LET mid == (lo + hi) \div 2
         IN  Max(MaxOver(f, lo, mid), MaxOver(f, mid + 1, hi))

\* Python round(): the quotient num / den rounded to the nearest integer,
\* ties to even (num >= 0, den > 0)
RoundDiv(num, den) ==
    LET q == num \div den
        r == num % den
    IN  IF 2 * r < den THEN q
        ELSE IF 2 * r > den THEN q + 1
        ELSE IF q % 2 = 0 THEN q ELSE q + 1

-----------------------------------------------------------------------------
(* skfuzzy membership generators, as called by FuzzySystem *)

\* fuzz.trimf(x, [a, b, c]) at the point x
trimf(x, a, b, c) ==
    IF x = b THEN Unit
    ELSE IF a # b /\ a < x /\ x < b THEN ((x - a) * Unit) \div (b - a)
    ELSE IF b # c /\ b < x /\ x < c THEN ((c - x) * Unit) \div (c - b)
    ELSE 0

\* fuzz.trapmf(x, [a, b, c, d]) at the point x
trapmf(x, a, b, c, d) ==
    IF x < a \/ x > d THEN 0
    ELSE IF x >= c THEN trimf(x, c, c, d)
    ELSE IF x <= b THEN trimf(x, a, b, b)
    ELSE Unit

\* self.x = np.linspace(0, 1, 101)
X == 0 .. One

Terms == {"Low", "Medium", "High"}

\* _setup_input_membership
input_terms(term, x) ==
    CASE term = "Low" -> trapmf(x, 0, 0, 10, 30)
      [] term = "Medium" -> trapmf(x, 20, 40, 50, 60)
      [] term = "High" -> trapmf(x, 50, 80, 100, 100)

\* _setup_output_membership
Negligible(x) == trapmf(x, 0, 0, 10, 30)
Minor(x) == trimf(x, 10, 30, 50)
Moderate(x) == trimf(x, 30, 50, 70)
Significant(x) == trimf(x, 50, 70, 90)
Severe(x) == trapmf(x, 70, 90, 100, 100)

\* skfuzzy.interp_membership(self.x, mf, val) for val on a sample point of x
\* (np.interp returns the sample there; outside x it returns 0)
interp_membership(term, val) ==
    IF val \in X THEN input_terms(term, val) ELSE 0

-----------------------------------------------------------------------------
(* config/settings.py *)

\* DCR_SETTINGS, in membership units
DCR_SETTINGS ==
    [negligible_threshold |-> (2 * Unit) \div 100,
     smoothing_threshold |-> (6 * Unit) \div 100,
     min_membership |-> Unit \div 1000]

\* a deployment that edits DCR_SETTINGS to alternate thresholds (0.10, 0.50,
\* 0.05)
AltSettings ==
    [negligible_threshold |-> (10 * Unit) \div 100,
     smoothing_threshold |-> (50 * Unit) \div 100,
     min_membership |-> (5 * Unit) \div 100]

-----------------------------------------------------------------------------
(* FuzzySystem *)

\* a slip that forgets the upper clamp: max(0.0, float(v))
SanitizeNoUpper(v) == Max(0, v)

\* max(0.0, min(float(v), 1.0))
Sanitize(v) == Max(0, Min(v, One))

\* np.mean(inputs), in membership units (Unit is a multiple of 4 * One)
MeanInput(inp) == ((inp[1] + inp[2] + inp[3] + inp[4]) * Unit) \div (4 * One)

\* min_memb = max(0.001, np.mean(inputs))
MinMemb(inp) == Max(Unit \div 1000, MeanInput(inp))

\* a slip in the comparison: np.mean(inputs) <= 0.02
IsNegligibleInclusive(inp) == MeanInput(inp) <= (2 * Unit) \div 100

\* if np.mean(inputs) < 0.02
IsNegligible(inp) == MeanInput(inp) < (2 * Unit) \div 100

\* one pass of the fuzzification loop: each term degree of the input val,
\* floored at min_memb * 0.1
FuzzifyOne(val, min_memb) ==
    [Low |-> Max(interp_membership("Low", val), min_memb \div 10),
     Medium |-> Max(interp_membership("Medium", val), min_memb \div 10),
     High |-> Max(interp_membership("High", val), min_memb \div 10)]

\* the fuzzification loop: fuzzified[i] is the code's fuzzified['L<i>']
Fuzzify(inp, min_memb) ==
    <<FuzzifyOne(inp[1], min_memb), FuzzifyOne(inp[2], min_memb),
      FuzzifyOne(inp[3], min_memb), FuzzifyOne(inp[4], min_memb)>>

\* Rule 0 antecedent: all inputs are low
rule0_strength(fz) ==
    Min(Min(fz[1].Low, fz[2].Low), Min(fz[3].Low, fz[4].Low))

\* Severe antecedent: L3 or L4 is high
rule_severe_strength(fz) == Max(fz[3].High, fz[4].High)

\* Significant antecedent: L1 or L2 is high
rule_significant_strength(fz) == Max(fz[1].High, fz[2].High)

\* medium_avg = np.mean of the four Medium degrees
medium_avg(fz) ==
    (fz[1].Medium + fz[2].Medium + fz[3].Medium + fz[4].Medium) \div 4

\* a slip in the Minor antecedent: L2's Medium degree instead of its Low
rule_minor_medium(fz) == Max(fz[1].Medium, fz[2].Medium)

\* Minor antecedent: L1 is medium or L2 is low
rule_minor_strength(fz) == Max(fz[1].Medium, fz[2].Low)

\* the five antecedent strengths, each a scalar broadcast over x
Strengths(fz) ==
    [rule0 |-> rule0_strength(fz),
     severe |-> rule_severe_strength(fz),
     significant |-> rule_significant_strength(fz),
     moderate |-> medium_avg(fz),
     minor |-> rule_minor_strength(fz)]

\* np.fmax.reduce over the five clipped consequents, at the point x
AggregateAt(st, x) ==
    Max(Max(Max(Min(st.rule0, Negligible(x)), Min(st.severe, Severe(x))),
            Max(Min(st.significant, Significant(x)),
                Min(st.moderate, Moderate(x)))),
        Min(st.minor, Minor(x)))

\* the array over x whose entry at the point x is f[x]: entry x + 1 of a
\* sequence of NumSamples entries
RECURSIVE Samples(_, _, _)
Samples(f, lo, hi) ==
    IF lo = hi THEN <<f[lo]>>
    ELSE LET mid == (lo + hi) \div 2
         IN  Samples(f, lo, mid) \o Samples(f, mid + 1, hi)

\* arr[x] of an array over x
At(arr, x) == arr[x + 1]

\* np.max(aggregated)
Peak(agg) == MaxOver(agg, 1, NumSamples)

\* a slip in the literal: np.max(aggregated) < 0.6
NeedsSmoothingBelow60(agg) == Peak(agg) < (60 * Unit) \div 100

\* if np.max(aggregated) < 0.06
NeedsSmoothing(agg) == Peak(agg) < (6 * Unit) \div 100

\* aggregated += self.output_terms['Negligible'] * min_memb
Smoothed(agg, min_memb) ==
    Samples([x \in X |->
                At(agg, x)
                    + ((Negligible(x) \div 100) * min_memb) \div (Unit \div 100)],
            0, One)

\* the tail of _apply_rules: the smoothing of the aggregate agg
SmoothIfLow(agg, min_memb) ==
    IF NeedsSmoothing(agg) THEN Smoothed(agg, min_memb) ELSE agg

\* the five rules and their aggregation, from the antecedent strengths st
AggregateRules(st) == Samples([x \in X |-> AggregateAt(st, x)], 0, One)

\* _apply_rules(fuzzified, min_memb)
apply_rules(fz, min_memb) ==
    SmoothIfLow(AggregateRules(Strengths(fz)), min_memb)

\* mfx.sum() == 0, the assertion of skfuzzy.defuzz that raises
ZeroArea(agg) == \A x \in X : At(agg, x) = 0

\* skfuzzy centroid(x, mfx): sum of moment * area over sum of area, taken over
\* the 100 trapezoids between neighbouring samples; the fraction num / den is
\* the centroid in hundredths.  For the trapezoid from x1 = i - 1 to x2 = i
\* with heights y1, y2: area = (y1 + y2) / 2 and
\* moment * area = (y1 + 2 * y2) / 6 + x1 * (y1 + y2) / 2.
centroid(agg) ==
    [num |-> SumOver([i \in 1 .. One |->
                         (At(agg, i - 1) + 2 * At(agg, i))
                             + 3 * (i - 1) * (At(agg, i - 1) + At(agg, i))],
                     1, One),
     den |-> 3 * SumOver([i \in 1 .. One |-> At(agg, i - 1) + At(agg, i)],
                         1, One)]

\* round(c, 4) of a fraction c = num / den (in hundredths) with 0 <= c < 1,
\* as ten-thousandths; the two decimal digits below a hundredth come from
\* long division, the rest decides the rounding (ties to even)
Round4(c) ==
    LET q == c.num \div c.den
        r0 == c.num % c.den
        d1 == (10 * r0) \div c.den
        r1 == (10 * r0) % c.den
        d2 == (10 * r1) \div c.den
        r2 == (10 * r1) % c.den
        base == 100 * q + 10 * d1 + d2
    IN  IF 2 * r2 < c.den THEN base
        ELSE IF 2 * r2 > c.den THEN base + 1
        ELSE IF base % 2 = 0 THEN base ELSE base + 1

\* a slip that scales the centroid to a percentage before clamping and
\* rounding it: round(max(min(dcr * 100, 100.0), 0.0), 4)
ClampRound4Percent(c) ==
    IF c.num <= 0 THEN 0
    ELSE IF c.num \div c.den >= One THEN One * DcrOne
    ELSE One * Round4(c)

\* round(max(min(dcr, 1.0), 0.0), 4) of the centroid c (in hundredths), as
\* ten-thousandths
ClampRound4(c) ==
    IF c.num <= 0 THEN 0
    ELSE IF c.num \div c.den >= One THEN DcrOne
    ELSE Round4(c)

\* round(min_memb, 3), as ten-thousandths
Round3(min_memb) == 10 * RoundDiv(min_memb * 1000, Unit)

\* the try block of calculate_dcr and its except clause, after _apply_rules
\* returned agg
Defuzzify(inp, min_memb, fz, agg) ==
    IF ZeroArea(agg)
    THEN [inputs |-> inp, fuzzified |-> fz, aggregated |-> agg,
          path |-> "fallback", ret |-> Round3(min_memb)]
    ELSE [inputs |-> inp, fuzzified |-> fz, aggregated |-> agg,
          path |-> "centroid", ret |-> ClampRound4(centroid(agg))]

\* calculate_dcr from the fuzzification on
Infer(inp, min_memb, fz) ==
    Defuzzify(inp, min_memb, fz, apply_rules(fz, min_memb))

\* calculate_dcr after input sanitization
FromInputs(inp) ==
    IF IsNegligible(inp)
    THEN [inputs |-> inp, fuzzified |-> <<>>, aggregated |-> <<>>,
          path |-> "negligible", ret |-> 0]
    ELSE Infer(inp, MinMemb(inp), Fuzzify(inp, MinMemb(inp)))

\* FuzzySystem.calculate_dcr(s1, s2, s3, s4): the locals at return and the
\* returned value ret
calculate_dcr(s1, s2, s3, s4) ==
    FromInputs(<<Sanitize(s1), Sanitize(s2), Sanitize(s3), Sanitize(s4)>>)

-----------------------------------------------------------------------------
(* DCRCalculator *)

\* calculate_adjusted_accuracy(raw_accuracy, dcr_factor):
\* raw_accuracy * (1 - dcr_factor), in ten-thousandths of a percent
calculate_adjusted_accuracy(raw_accuracy, dcr_factor) ==
    raw_accuracy * (DcrOne - dcr_factor)

\* a slip that drops the abs: current_adjusted - baseline_adjusted
calculate_delta_signed(baseline_adjusted, current_adjusted) ==
    current_adjusted - baseline_adjusted

\* calculate_delta(baseline_adjusted, current_adjusted)
calculate_delta(baseline_adjusted, current_adjusted) ==
    Abs(current_adjusted - baseline_adjusted)

\* a slip that drops the abs: errors = [gt - pred for ...]
ErrorsSigned(gts, preds) ==
    [i \in 1 .. Min(Len(gts), Len(preds)) |-> gts[i] - preds[i]]

\* errors = [abs(gt - pred) for gt, pred in zip(ground_truths, predictions)]
Errors(gts, preds) ==
    [i \in 1 .. Min(Len(gts), Len(preds)) |-> Abs(gts[i] - preds[i])]

\* calculate_average_error(ground_truths, predictions): 0.0 on an empty list,
\* else sum(errors) / len(errors), kept as the fraction num / den
calculate_average_error(gts, preds) ==
    IF Len(gts) = 0 \/ Len(preds) = 0
    THEN [num |-> 0, den |-> 1]
    ELSE [num |-> SumOver(Errors(gts, preds), 1, Min(Len(gts), Len(preds))),
          den |-> Min(Len(gts), Len(preds))]

\* a slip in the guard: "and" for "or"
calculate_correlation_and(xs, ys) ==
    IF Len(xs) < 2 /\ Len(ys) < 2
    THEN [kind |-> "value", corr |-> 0, p_value |-> 1]
    ELSE [kind |-> "pearsonr", xs |-> xs, ys |-> ys]

\* calculate_correlation(dcr_values, accuracy_values): kind "value" is the
\* literal return (0.0, 1.0); kind "pearsonr" is the return of scipy's
\* pearsonr(xs, ys), identified by the lists it was called on
calculate_correlation(xs, ys) ==
    IF Len(xs) < 2 \/ Len(ys) < 2
    THEN [kind |-> "value", corr |-> 0, p_value |-> 1]
    ELSE [kind |-> "pearsonr", xs |-> xs, ys |-> ys]

\* model in ground_truths
HasBaseline(gt, model) == model \in DOMAIN gt

\* a slip that keeps the first baseline of a model:
\* ground_truths.setdefault(model, adj_acc)
SetBaselineKeepFirst(gt, model, adj_acc) ==
    [m \in DOMAIN gt \cup {model} |->
        IF m \in DOMAIN gt THEN gt[m] ELSE adj_acc]

\* ground_truths[model] = adj_acc
SetBaseline(gt, model, adj_acc) ==
    [m \in DOMAIN gt \cup {model} |-> IF m = model THEN adj_acc ELSE gt[m]]

\* a slip that looks the baseline up with a default:
\* ground_truths.get(model, 0.0) in place of the membership test
RowDeltaDefaultBaseline(gt, row, adj_acc) ==
    IF row.bdc_level = 0 THEN 0
    ELSE IF HasBaseline(gt, row.model)
         THEN calculate_delta(gt[row.model], adj_acc)
         ELSE calculate_delta(0, adj_acc)

\* the "Calculate delta" statement of the loop body: delta for the row
RowDelta(gt, row, adj_acc) ==
    IF row.bdc_level = 0 THEN 0
    ELSE IF HasBaseline(gt, row.model)
         THEN calculate_delta(gt[row.model], adj_acc)
         ELSE 0

\* the same statement: ground_truths after the row
RowGroundTruths(gt, row, adj_acc) ==
    IF row.bdc_level = 0 THEN SetBaseline(gt, row.model, adj_acc) ELSE gt

\* the same statement: does the row append to gt_list and pred_list
RowAddsPair(gt, row) == row.bdc_level # 0 /\ HasBaseline(gt, row.model)

\* a slip that stores the adjusted accuracy under 'raw_acc'
ResultRecordAdjAsRaw(row, dcr_factor, adj_acc, delta) ==
    [model |-> row.model, bdc_level |-> row.bdc_level, dcr |-> dcr_factor,
     raw_acc |-> adj_acc, adj_acc |-> adj_acc, delta |-> delta]

\* the record appended to results
ResultRecord(row, dcr_factor, adj_acc, delta) ==
    [model |-> row.model, bdc_level |-> row.bdc_level, dcr |-> dcr_factor,
     raw_acc |-> row.acc, adj_acc |-> adj_acc, delta |-> delta]

-----------------------------------------------------------------------------
(* A direct call of calculate_dcr (example.py, example_single_calculation) *)

\* the scores a caller may pass, in hundredths: below 0, on every slope and
\* plateau of the input terms, and above 1
ScoreArgs == {-50, 0, 2, 3, 10, 25, 30, 55, 80, 100, 150}

NoCall ==
    /\ inputs = <<>>
    /\ fuzzified = <<>>
    /\ aggregated = <<>>
    /\ dcr = -1
    /\ path = "none"

NoBatch ==
    /\ data = <<>>
    /\ results = <<>>
    /\ ground_truths = <<>>
    /\ gt_list = <<>>
    /\ pred_list = <<>>
    /\ dcr_values = <<>>
    /\ raw_acc_values = <<>>

NoStat ==
    /\ arg_xs = <<>>
    /\ arg_ys = <<>>
    /\ average_error = [num |-> 0, den |-> 1]
    /\ correlation = [kind |-> "none"]

InitFuzzy ==
    /\ settings = DCR_SETTINGS
    /\ pc = "dcr_call"
    /\ s \in ScoreArgs \X ScoreArgs \X ScoreArgs \X ScoreArgs
    /\ NoCall
    /\ NoBatch
    /\ NoStat

\* calculator.calculate_dcr(s1, s2, s3, s4) runs to its return
CalculateDcr ==
    /\ pc = "dcr_call"
    /\ \E call \in {calculate_dcr(s[1], s[2], s[3], s[4])} :
           /\ inputs' = call.inputs
           /\ fuzzified' = call.fuzzified
           /\ aggregated' = call.aggregated
           /\ path' = call.path
           /\ dcr' = call.ret
    /\ pc' = "dcr_done"
    /\ UNCHANGED <<settings, s, batch_vars, stat_vars>>

NextFuzzy == CalculateDcr

SpecFuzzy == InitFuzzy /\ [][NextFuzzy]_vars

\* the same call in a deployment whose DCR_SETTINGS may have been edited
ConfigScoreArgs == {0, 1, 5, 30, 80}

InitConfig ==
    /\ settings \in {DCR_SETTINGS, AltSettings}
    /\ pc = "dcr_call"
    /\ s \in ConfigScoreArgs \X ConfigScoreArgs \X ConfigScoreArgs
              \X ConfigScoreArgs
    /\ NoCall
    /\ NoBatch
    /\ NoStat

SpecConfig == InitConfig /\ [][NextFuzzy]_vars

-----------------------------------------------------------------------------
(* The analyzer's API: process_experiment_data over a batch of rows          *)
(* (main.py, analyze_benchmark) and direct calls of the statistics           *)
(* (example.py, example_correlation_analysis)                                *)

\* the longest batch
MaxRows == 4
\* the longest list passed to a direct statistics call
MaxStatLen == 2

Models == {"gpt", "llama"}
BdcLevels == {0, 2}
\* <<t1, t2, t3, t4>> of a row: clean (mean below 0.02) and contaminated
RowScores == {<<0, 2, 3, 0>>, <<30, 20, 50, 10>>}
Accuracies == {60, 85}
Rows == [bdc_level : BdcLevels, model : Models, t : RowScores,
         acc : Accuracies]

StatValues == {0, 10, 30}
Lists(S, n) == UNION {[1 .. k -> S] : k \in 0 .. n}

\* DCRCalculator.calculate_dcr(t1, t2, t3, t4) = self.fuzzy_system
\* .calculate_dcr(t1, t2, t3, t4), a pure function, tabulated over the score
\* tuples a row can carry
DcrTable ==
    [t \in RowScores |-> calculate_dcr(t[1], t[2], t[3], t[4]).ret]

Init ==
    /\ settings = DCR_SETTINGS
    /\ pc = "idle"
    /\ s = <<>>
    /\ NoCall
    /\ NoBatch
    /\ NoStat

\* process_experiment_data(data) is entered: the six accumulators are empty
ProcessBegin ==
    /\ pc = "idle"
    /\ pc' = "loop"
    /\ data' = <<>>
    /\ results' = <<>>
    /\ ground_truths' = <<>>
    /\ gt_list' = <<>>
    /\ pred_list' = <<>>
    /\ dcr_values' = <<>>
    /\ raw_acc_values' = <<>>
    /\ UNCHANGED <<settings, engine_vars, stat_vars>>

\* one iteration of "for row in data"
ProcessRow ==
    /\ pc = "loop"
    /\ Len(data) < MaxRows
    /\ \E row \in Rows :
         \E dcr_factor \in {DcrTable[row.t]} :
           \E adj_acc \in {calculate_adjusted_accuracy(row.acc, dcr_factor)} :
             /\ data' = Append(data, row)
             /\ dcr_values' = Append(dcr_values, dcr_factor)
             /\ raw_acc_values' = Append(raw_acc_values, row.acc)
             /\ ground_truths' = RowGroundTruths(ground_truths, row, adj_acc)
             /\ gt_list' = IF RowAddsPair(ground_truths, row)
                           THEN Append(gt_list, ground_truths[row.model])
                           ELSE gt_list
             /\ pred_list' = IF RowAddsPair(ground_truths, row)
                             THEN Append(pred_list, adj_acc)
                             ELSE pred_list
             /\ results' = Append(results,
                                  ResultRecord(row, dcr_factor, adj_acc,
                                               RowDelta(ground_truths, row,
                                                        adj_acc)))
    /\ UNCHANGED <<settings, pc, engine_vars, stat_vars>>

\* the loop ends: "Calculate statistics" and return
ProcessEnd ==
    /\ pc = "loop"
    /\ pc' = "done"
    /\ arg_xs' = dcr_values
    /\ arg_ys' = raw_acc_values
    /\ average_error' = calculate_average_error(gt_list, pred_list)
    /\ correlation' = calculate_correlation(dcr_values, raw_acc_values)
    /\ UNCHANGED <<settings, engine_vars, batch_vars>>

\* calculator.calculate_average_error(xs, ys), called directly
CallAverageError ==
    /\ pc = "idle"
    /\ \E xs \in Lists(StatValues, MaxStatLen), ys \in Lists(StatValues, MaxStatLen) :
         /\ arg_xs' = xs
         /\ arg_ys' = ys
         /\ average_error' = calculate_average_error(xs, ys)
    /\ pc' = "error_done"
    /\ UNCHANGED <<settings, engine_vars, batch_vars, correlation>>

\* calculator.calculate_correlation(xs, ys), called directly
CallCorrelation ==
    /\ pc = "idle"
    /\ \E xs \in Lists(StatValues, MaxStatLen), ys \in Lists(StatValues, MaxStatLen) :
         /\ arg_xs' = xs
         /\ arg_ys' = ys
         /\ correlation' = calculate_correlation(xs, ys)
    /\ pc' = "correlation_done"
    /\ UNCHANGED <<settings, engine_vars, batch_vars, average_error>>

Next ==
    \/ ProcessBegin
    \/ ProcessRow
    \/ ProcessEnd
    \/ CallAverageError
    \/ CallCorrelation

Spec == Init /\ [][Next]_vars


-----------------------------------------------------------------------------
(* Properties of the fuzzy inference engine *)

\* the clamping the documentation describes, stated apart from the code:
\* negative scores count as 0, scores above 1 count as 1
Clamp01(v) == IF v < 0 THEN 0 ELSE IF v > One THEN One ELSE v

\* the sum of the four clamped arguments, in hundredths
ClampedSum == Clamp01(s[1]) + Clamp01(s[2]) + Clamp01(s[3]) + Clamp01(s[4])

\* the largest element of a non-empty set of integers
SetMax(S) == CHOOSE m \in S : \A y \in S : y <= m

\* the smallest element of a non-empty set of integers
SetMin(S) == CHOOSE m \in S : \A y \in S : m <= y

OutOfRange(v) == v < 0 \/ v > One

\* C1: for every quadruple of numeric arguments, inside [0,1] or not,
\* calculate_dcr returns through one of its three return statements and the
\* value it returns lies between 0 and 1
C1_DcrInUnitInterval ==
    pc = "dcr_done" =>
        /\ path \in {"negligible", "centroid", "fallback"}
        /\ dcr >= 0
        /\ dcr <= DcrOne

\* C1 witness: a call with one argument below 0 and one above 1 returned a
\* centroid strictly inside (0, 1)
C1_Witness ==
    /\ pc = "dcr_done"
    /\ \E i, j \in 1 .. 4 : s[i] < 0 /\ s[j] > One
    /\ path = "centroid"
    /\ dcr > 0
    /\ dcr < DcrOne

\* C2: when the mean of the clamped arguments is below 0.02 (their sum below
\* 0.08) calculate_dcr returns exactly 0.0 and has neither fuzzified nor
\* applied rules; when the mean is 0.02 or more the short-circuit is not taken
C2_NegligibleShortCircuit ==
    pc = "dcr_done" =>
        /\ ClampedSum < 8 =>
              /\ path = "negligible"
              /\ dcr = 0
              /\ fuzzified = <<>>
              /\ aggregated = <<>>
        /\ ClampedSum >= 8 =>
              /\ path # "negligible"
              /\ Len(fuzzified) = 4
              /\ Len(aggregated) = NumSamples

\* C2 witness: a call whose clamped mean is 0.0175, just below the threshold,
\* returned 0.0 by the short-circuit
C2_Witness ==
    /\ pc = "dcr_done"
    /\ ClampedSum = 7
    /\ path = "negligible"
    /\ dcr = 0

\* C3: calculate_dcr on any arguments returns what it returns on the same
\* arguments clamped to [0,1], and it returns a value (no error)
C3_ClampedNotRejected ==
    pc = "dcr_done" =>
        /\ path \in {"negligible", "centroid", "fallback"}
        /\ inputs = <<Clamp01(s[1]), Clamp01(s[2]), Clamp01(s[3]),
                      Clamp01(s[4])>>
        /\ dcr = calculate_dcr(Clamp01(s[1]), Clamp01(s[2]), Clamp01(s[3]),
                               Clamp01(s[4])).ret

\* C3 witness: a call with an argument above 1 and all others in range
\* returned a non-zero value
C3_Witness ==
    /\ pc = "dcr_done"
    /\ s[1] > One
    /\ \A i \in 2 .. 4 : ~OutOfRange(s[i])
    /\ dcr > 0

\* C8: the engine takes its thresholds from the deployed settings: the
\* short-circuit is taken exactly when the mean input is below
\* settings.negligible_threshold, and every fuzzified degree is at least a
\* tenth of max(settings.min_membership, mean input)
C8_ThresholdsFromSettings ==
    pc = "dcr_done" =>
        /\ path = "negligible" <=>
              MeanInput(inputs) < settings.negligible_threshold
        /\ path # "negligible" =>
              \A i \in 1 .. 4 :
                 fuzzified[i].High >=
                    Max(settings.min_membership, MeanInput(inputs)) \div 10

\* C10: whenever _apply_rules ran, its aggregate equals at every sample point
\* the maximum of the five clipped consequents, and so never exceeds the
\* pointwise maximum of the five output terms
C10_AggregateIsMaxOfClippedRules ==
    (pc = "dcr_done" /\ path # "negligible") =>
        \A x \in X :
           /\ At(aggregated, x) =
                SetMax({
                  Min(SetMin({fuzzified[i].Low : i \in 1 .. 4}),
                      Negligible(x)),
                  Min(SetMax({fuzzified[3].High, fuzzified[4].High}),
                      Severe(x)),
                  Min(SetMax({fuzzified[1].High, fuzzified[2].High}),
                      Significant(x)),
                  Min((fuzzified[1].Medium + fuzzified[2].Medium
                         + fuzzified[3].Medium + fuzzified[4].Medium) \div 4,
                      Moderate(x)),
                  Min(SetMax({fuzzified[1].Medium, fuzzified[2].Low}),
                      Minor(x))})
           /\ At(aggregated, x) <=
                SetMax({Negligible(x), Minor(x), Moderate(x), Significant(x),
                        Severe(x)})

\* C10 witness: with L3 fully High the aggregate reaches 1.0 at x = 1.0 (the
\* Severe rule) while L2.Low lifts it at x = 0.3 (the Minor rule)
C10_Witness ==
    /\ pc = "dcr_done"
    /\ path = "centroid"
    /\ fuzzified[3].High = Unit
    /\ At(aggregated, One) = Unit
    /\ fuzzified[2].Low = Unit
    /\ At(aggregated, 30) = Unit

\* C11: whenever a call passes the negligible short-circuit, the aggregate of
\* the five rules has a peak of at least 0.06 and is not zero everywhere, so
\* _apply_rules returns it without the smoothing term, the fallback
\* round(min_memb, 3) is not taken, and the value returned is the clamped
\* centroid of that aggregate rounded to 4 decimals
C11_NoSmoothingNoFallback ==
    (pc = "dcr_done" /\ path # "negligible") =>
        /\ \E x \in X : At(aggregated, x) >= (6 * Unit) \div 100
        /\ \E x \in X : At(aggregated, x) # 0
        /\ \A x \in X :
              At(aggregated, x) = AggregateAt(Strengths(fuzzified), x)
        /\ path = "centroid"
        /\ dcr = ClampRound4(centroid(aggregated))

\* C11 witness: a call with all arguments in [0,1] passed the short-circuit
\* with an aggregate that peaks below 0.15, and returned its centroid
C11_Witness ==
    /\ pc = "dcr_done"
    /\ \A i \in 1 .. 4 : ~OutOfRange(s[i])
    /\ path = "centroid"
    /\ \A x \in X : At(aggregated, x) < (15 * Unit) \div 100
    /\ dcr > 0

-----------------------------------------------------------------------------
(* Properties of the contamination analyzer *)

\* the rows before row i that set the baseline of row i's model
EarlierBaselines(i) ==
    {j \in 1 .. i - 1 :
        data[j].bdc_level = 0 /\ data[j].model = data[i].model}

\* the most recent of them
LastBaseline(i) == SetMax(EarlierBaselines(i))

\* the contaminated rows that had a baseline when they were processed
Paired ==
    {i \in 1 .. Len(data) :
        data[i].bdc_level # 0 /\ EarlierBaselines(i) # {}}

\* the baseline rows of model m read so far
BaselineRows(m) ==
    {j \in 1 .. Len(data) : data[j].bdc_level = 0 /\ data[j].model = m}

\* the sum of |baseline - current| over the paired rows
PairedErrorSum ==
    SumOver([i \in 1 .. Len(data) |->
                IF i \in Paired
                THEN Abs(results[LastBaseline(i)].adj_acc - results[i].adj_acc)
                ELSE 0],
            1, Len(data))

\* C4: every row has adj_acc = raw_acc * (1 - dcr); a row with bdc_level 0
\* gets delta 0.0 and its adj_acc becomes the baseline of its model; a row
\* with bdc_level other than 0 whose model has a baseline from an earlier row
\* gets delta = |its adj_acc - that baseline|
C4_DeltaFromBaseline ==
    /\ Len(results) = Len(data)
    /\ \A i \in 1 .. Len(data) :
          /\ results[i].adj_acc = data[i].acc * (DcrOne - results[i].dcr)
          /\ data[i].bdc_level = 0 => results[i].delta = 0
          /\ i \in Paired =>
                results[i].delta =
                    Abs(results[i].adj_acc
                          - results[LastBaseline(i)].adj_acc)
    /\ \A m \in Models :
          BaselineRows(m) # {} =>
              /\ m \in DOMAIN ground_truths
              /\ ground_truths[m] = results[SetMax(BaselineRows(m))].adj_acc

\* C4 witness: a contaminated row whose adjusted accuracy is above its
\* model's baseline got a positive delta
C4_Witness ==
    \E i \in Paired :
       /\ results[i].adj_acc > results[LastBaseline(i)].adj_acc
       /\ results[i].delta > 0

\* C5: a row with bdc_level other than 0 whose model had no bdc_level 0 row
\* earlier in the input gets delta 0.0, whatever comes later, and processing
\* it leaves gt_list and pred_list as they were
C5_NoBaselineNoDelta ==
    /\ [](\A i \in 1 .. Len(data) :
             (data[i].bdc_level # 0 /\ EarlierBaselines(i) = {}) =>
                 results[i].delta = 0)
    /\ [][(/\ Len(data') = Len(data) + 1
           /\ data'[Len(data')].bdc_level # 0
           /\ BaselineRows(data'[Len(data')].model) = {})
          => (gt_list' = gt_list /\ pred_list' = pred_list)]_vars

\* C5 witness: a contaminated row came before the baseline row of its model,
\* the two differ in adjusted accuracy, and the contaminated row has delta
\* 0.0 and added no pair
C5_Witness ==
    \E i, j \in 1 .. Len(data) :
       /\ i < j
       /\ data[i].bdc_level # 0
       /\ EarlierBaselines(i) = {}
       /\ data[j].bdc_level = 0
       /\ data[j].model = data[i].model
       /\ results[j].adj_acc # results[i].adj_acc
       /\ results[i].delta = 0
       /\ gt_list = <<>>
       /\ pred_list = <<>>

\* C6: gt_list and pred_list always have the same length; the average_error
\* returned by process_experiment_data is the mean of |baseline - current|
\* over exactly the paired rows of all models, and 0.0 when there is none;
\* calculate_average_error returns 0.0 when a list is empty
C6_AverageErrorOverPairedRows ==
    /\ Len(gt_list) = Len(pred_list)
    /\ Len(gt_list) = Cardinality(Paired)
    /\ pc = "done" =>
          IF Paired = {}
          THEN average_error = [num |-> 0, den |-> 1]
          ELSE /\ average_error.den > 0
               /\ average_error.num * Cardinality(Paired)
                     = PairedErrorSum * average_error.den
    /\ (pc = "error_done" /\ (arg_xs = <<>> \/ arg_ys = <<>>)) =>
          average_error = [num |-> 0, den |-> 1]

\* C6 witness: a finished batch with a paired row of each model, a row
\* without a baseline, and a non-zero average error
C6_Witness ==
    /\ pc = "done"
    /\ \E i, j \in Paired :
          /\ data[i].model # data[j].model
          /\ results[i].adj_acc > results[LastBaseline(i)].adj_acc
          /\ results[j].adj_acc < results[LastBaseline(j)].adj_acc
    /\ average_error.num > 0
    /\ average_error.den = 2

\* C7: calculate_correlation returns exactly (0.0, 1.0), and does not call
\* pearsonr, whenever either list has fewer than 2 entries; so does
\* process_experiment_data on a batch of zero or one row
C7_CorrelationSentinel ==
    /\ (pc = "correlation_done" /\ (Len(arg_xs) < 2 \/ Len(arg_ys) < 2)) =>
          correlation = [kind |-> "value", corr |-> 0, p_value |-> 1]
    /\ (pc = "done" /\ Len(data) < 2) =>
          correlation = [kind |-> "value", corr |-> 0, p_value |-> 1]

\* C7 witness: a direct call with one sample against two returned (0.0, 1.0)
C7_Witness ==
    /\ pc = "correlation_done"
    /\ Len(arg_xs) = 1
    /\ Len(arg_ys) = 2
    /\ correlation = [kind |-> "value", corr |-> 0, p_value |-> 1]

\* what calculate_dcr returns on the scores of row i
RowDcr(i) == DcrTable[data[i].t]

\* C9: results holds one record per row read, in input order, carrying the
\* row's model, bdc_level and raw accuracy; dcr_values and raw_acc_values hold
\* one entry per row, the i-th from row i, baseline rows included; and the
\* correlation of a batch of two or more rows is pearsonr over exactly these
C9_OneRecordPerRowInOrder ==
    /\ Len(results) = Len(data)
    /\ Len(dcr_values) = Len(data)
    /\ Len(raw_acc_values) = Len(data)
    /\ \A i \in 1 .. Len(data) :
          /\ results[i].model = data[i].model
          /\ results[i].bdc_level = data[i].bdc_level
          /\ results[i].raw_acc = data[i].acc
          /\ results[i].dcr = RowDcr(i)
          /\ dcr_values[i] = RowDcr(i)
          /\ raw_acc_values[i] = data[i].acc
    /\ (pc = "done" /\ Len(data) >= 2) =>
          correlation = [kind |-> "pearsonr",
                         xs |-> [i \in 1 .. Len(data) |-> RowDcr(i)],
                         ys |-> [i \in 1 .. Len(data) |-> data[i].acc]]

\* C9 witness: a finished batch of three or more rows of two models, with a
\* baseline row after a contaminated one, was correlated by pearsonr
C9_Witness ==
    /\ pc = "done"
    /\ Len(data) >= 3
    /\ data[1].bdc_level # 0
    /\ data[2].bdc_level = 0
    /\ data[3].model # data[1].model
    /\ data[1].t # data[2].t
    /\ correlation.kind = "pearsonr"
    /\ Len(correlation.xs) = Len(data)

\* the position in gt_list and pred_list of the pair that paired row i added
PairIndex(i) == Cardinality({j \in Paired : j <= i})

\* C12: each bdc_level 0 row overwrites the baseline of its model: every
\* contaminated row that follows has its delta, and the pair it appends to
\* gt_list and pred_list, computed against the adjusted accuracy of the most
\* recent bdc_level 0 row of its own model before it
C12_MostRecentBaseline ==
    \A i \in Paired :
       /\ results[i].delta =
             Abs(results[i].adj_acc - results[LastBaseline(i)].adj_acc)
       /\ PairIndex(i) <= Len(gt_list)
       /\ PairIndex(i) <= Len(pred_list)
       /\ gt_list[PairIndex(i)] = results[LastBaseline(i)].adj_acc
       /\ pred_list[PairIndex(i)] = results[i].adj_acc

\* C12 witness: a model with two baseline rows of different adjusted accuracy,
\* then a baseline row of the other model, then a contaminated row of the
\* first model whose delta is the distance to the second baseline and differs
\* from the distance to the first and to the other model's
C12_Witness ==
    /\ Len(data) = 4
    /\ data[1].bdc_level = 0
    /\ data[2].bdc_level = 0
    /\ data[3].bdc_level = 0
    /\ data[4].bdc_level # 0
    /\ data[1].model = data[4].model
    /\ data[2].model = data[4].model
    /\ data[3].model # data[4].model
    /\ results[4].delta = Abs(results[4].adj_acc - results[2].adj_acc)
    /\ results[4].delta # Abs(results[4].adj_acc - results[1].adj_acc)
    /\ results[4].delta # Abs(results[4].adj_acc - results[3].adj_acc)
    /\ gt_list = <<results[2].adj_acc>>
    /\ pred_list = <<results[4].adj_acc>>

=============================================================================
